---- MODULE Spec2Model ----
(***************************************************************************)
(* Model of vhsdecode/main.py: the decode driver of vhs-decode.            *)
(*                                                                         *)
(* The main thread masks SIGINT, constructs the decoding engine, restores  *)
(* the handler, seeks, starts the JSON dumper thread and then pulls fields *)
(* from the engine until enough fields were written or the engine returns  *)
(* None.  cleanup() enqueues a last JSON snapshot, closes the engine and   *)
(* enqueues None for the dumper thread.                                    *)
(*                                                                         *)
(* The engine (vhsdecode.process.VHSDecode) and the dumper thread          *)
(* (lddecode.utils.jsondump_thread) are collaborators whose code is not    *)
(* part of main.py; they are modelled at their interface.                  *)
(***************************************************************************)
EXTENDS Integers, Sequences, FiniteSets, TLC

\* ---------------------------------------------------------------- bounds
MaxFrames == 2      \* req_frames ranges over 0..MaxFrames in Spec
LongFrames == 1000  \* req_frames of the long run of SpecLong
MaxStalls == 1      \* readfield calls that return a field without writing one
MaxSigints == 1     \* SIGINTs delivered to the process in one run
MaxWriteFailures == 1  \* writes of the dumper thread that fail in one run
MaxLag == 1         \* SpecLong: messages the dumper thread may lag behind
MaxCleanups == 2    \* SpecTwice: invocations of cleanup() in one run

\* ------------------------------------------------------ program constants
SnapThreshold == 100   \* main.py:288  fields_written < 100
SnapInterval == 500    \* main.py:288  fields_written % 500
NoFileloc == -1        \* main.py:248  args.start_fileloc != -1

VARIABLES
    env,                     \* what the surroundings of main() do in this run
    pc,                      \* position of the main thread in main()
    sigint,                  \* current disposition of SIGINT
    original_sigint_handler, \* main.py:208
    start_fileloc,           \* args.start_fileloc
    firstframe,              \* get_basics(args)
    req_frames,              \* get_basics(args)
    fields_written,          \* vhsd.fields_written
    fdoffset,                \* vhsd.fdoffset
    done,                    \* main.py:257
    f,                       \* main.py:268, result of the last readfield
    closed,                  \* vhsd.close() was called
    seeks,                   \* calls of vhsd.roughseek
    queue,                   \* jsondumper, the queue of the dumper thread
    wpc,                     \* position of the dumper thread
    wmsg,                    \* message the dumper thread is writing
    file,                    \* content of the .tbc.json output
    out,                     \* what main() printed
    exitStatus,              \* status main() exited with
    exitPath,                \* call site of cleanup()
    raised,                  \* the exception that left main(), if any
    readCalls,               \* history: calls of vhsd.readfield
    engineCallsAfterClose,   \* history: engine calls made after close()
    stalls,                  \* history: readfield calls that wrote no field
    sigints,                 \* history: SIGINTs delivered
    sigintAt,                \* history: pc at which a SIGINT was raised
    nFinal,                  \* history: final snapshots enqueued by cleanup
    nClose,                  \* history: calls of vhsd.close
    nStop,                   \* history: None messages enqueued
    enqCount,                \* history: messages enqueued
    finalAt,                 \* history: sequence number of the final snapshot
    stopAt,                  \* history: sequence number of the None message
    lastSeen,                \* history: sequence number last got by the dumper
    lastWrite,               \* history: last write attempt of the dumper
    writeFailures,           \* history: failed writes of the dumper
    snapped                  \* history: the last iteration enqueued a snapshot

vars == <<env, pc, sigint, original_sigint_handler, start_fileloc, firstframe,
          req_frames, fields_written, fdoffset, done, f, closed, seeks, queue,
          wpc, wmsg, file, out, exitStatus, exitPath, raised, readCalls,
          engineCallsAfterClose, stalls, sigints, sigintAt, nFinal, nClose,
          nStop, enqCount, finalAt, stopAt, lastSeen, lastWrite, writeFailures,
          snapped>>

inputVars == <<env, start_fileloc, firstframe, req_frames>>
engineVars == <<fields_written, fdoffset, closed, seeks, readCalls, stalls,
                engineCallsAfterClose, nClose>>
queueVars == <<queue, enqCount, nFinal, nStop, finalAt, stopAt>>
writerVars == <<wpc, wmsg, file, lastSeen, lastWrite, writeFailures>>
signalVars == <<sigint, original_sigint_handler, sigints, sigintAt>>

\* ------------------------------------------------------------- messages
NoStatus == -1

NoException == [kind |-> "none", at |-> "none"]

NoMsg == [kind |-> "none", n |-> 0, fw |-> 0]

\* vhsd.build_json(vhsd.curfield): the progress of the engine
build_json(n) == [kind |-> "json", n |-> n, fw |-> fields_written]

\* the None that ends the dumper thread
StopMsg(n) == [kind |-> "None", n |-> n, fw |-> 0]

\* signal dispositions the process can start with
Handlers == {"default_int_handler", "SIG_IGN"}

\* ------------------------------------------------------------------ Init
InitWith(envs, frames, filelocs, firsts, handlers) ==
    /\ env \in envs
    /\ pc = "make_loader"
    /\ sigint \in handlers
    /\ original_sigint_handler = "unset"
    /\ start_fileloc \in filelocs
    /\ firstframe \in firsts
    /\ req_frames \in frames
    /\ fields_written = 0
    /\ fdoffset = 0
    /\ done = FALSE
    /\ f = "unset"
    /\ closed = FALSE
    /\ seeks = <<>>
    /\ queue = <<>>
    /\ wpc = "not_started"
    /\ wmsg = NoMsg
    /\ file = NoMsg
    /\ out = <<>>
    /\ exitStatus = NoStatus
    /\ exitPath = "none"
    /\ raised = NoException
    /\ readCalls = 0
    /\ engineCallsAfterClose = 0
    /\ stalls = 0
    /\ sigints = 0
    /\ sigintAt = "none"
    /\ nFinal = 0
    /\ nClose = 0
    /\ nStop = 0
    /\ enqCount = 0
    /\ finalAt = 0
    /\ stopAt = 0
    /\ lastSeen = 0
    /\ lastWrite = [n |-> 0, ok |-> TRUE]
    /\ writeFailures = 0
    /\ snapped = FALSE

\* a short run: every disturbance within its bound, the dumper thread as
\* slow as it likes
ShortRun == [stalls |-> MaxStalls, sigints |-> MaxSigints,
             writeFailures |-> MaxWriteFailures, lagBounded |-> FALSE]

\* a long run: SIGINTs only, the dumper thread at most MaxLag messages behind
LongRun == [stalls |-> 0, sigints |-> MaxSigints,
            writeFailures |-> 0, lagBounded |-> TRUE]

Init == InitWith({ShortRun}, 0..MaxFrames, {NoFileloc, 3}, {0, 1}, Handlers)

InitLong ==
    InitWith({LongRun}, {LongFrames}, {NoFileloc}, {0}, {"default_int_handler"})

\* ------------------------------------------------------- the main thread
\* an exception leaves main(): nothing below the raise runs
Propagate(kind) ==
    /\ pc' = "uncaught"
    /\ raised' = [kind |-> kind, at |-> pc]
    /\ UNCHANGED <<exitStatus, exitPath, out>>

\* the dumper thread is scheduled before main() gets further ahead of it
LagOK == ~env.lagBounded \/ Len(queue) <= MaxLag

\* jsondumper.put(msg)
put(msg) ==
    /\ LagOK
    /\ queue' = Append(queue, msg)
    /\ enqCount' = enqCount + 1

\* mutant: the ValueError is printed and main() goes on
MakeLoader_NoExit ==
    /\ pc = "make_loader"
    /\ \/ /\ pc' = "sig_ign"
          /\ UNCHANGED <<out, exitStatus, raised>>
       \/ /\ out' = Append(out, "ValueError")
          /\ pc' = "sig_ign"
          /\ UNCHANGED <<exitStatus, raised>>
    /\ UNCHANGED <<inputVars, engineVars, queueVars, writerVars, signalVars,
                   done, f, exitPath, snapped>>

\* main.py:180-184
MakeLoader ==
    /\ pc = "make_loader"
    /\ \/ /\ pc' = "sig_ign"
          /\ UNCHANGED <<out, exitStatus, raised>>
       \/ /\ out' = Append(out, "ValueError")
          /\ exitStatus' = 1
          /\ pc' = "exited"
          /\ UNCHANGED raised
    /\ UNCHANGED <<inputVars, engineVars, queueVars, writerVars, signalVars,
                   done, f, exitPath, snapped>>

\* main.py:208
SigIgn ==
    /\ pc = "sig_ign"
    /\ original_sigint_handler' = sigint
    /\ sigint' = "SIG_IGN"
    /\ pc' = "construct"
    /\ UNCHANGED <<inputVars, engineVars, queueVars, writerVars, sigints,
                   sigintAt, done, f, out, exitStatus, raised, exitPath,
                   snapped>>

\* main.py:210-244
Construct ==
    /\ pc = "construct"
    /\ \/ /\ pc' = "sig_restore"
          /\ UNCHANGED <<exitStatus, raised, exitPath, out>>
       \/ Propagate("Exception")
    /\ UNCHANGED <<inputVars, engineVars, queueVars, writerVars, signalVars,
                   done, f, snapped>>

\* main.py:246
SigRestore ==
    /\ pc = "sig_restore"
    /\ sigint' = original_sigint_handler
    /\ pc' = "roughseek"
    /\ UNCHANGED <<inputVars, engineVars, queueVars, writerVars,
                   original_sigint_handler, sigints, sigintAt, done, f, out,
                   exitStatus, raised, exitPath, snapped>>

\* mutant: the frame number is passed where a field number is expected
SeekTarget_FrameNotField ==
    IF start_fileloc # NoFileloc
    THEN [to |-> start_fileloc, infield |-> FALSE]
    ELSE [to |-> firstframe, infield |-> TRUE]

\* main.py:248-257
SeekTarget ==
    IF start_fileloc # NoFileloc
    THEN [to |-> start_fileloc, infield |-> FALSE]
    ELSE [to |-> firstframe * 2, infield |-> TRUE]

Roughseek ==
    /\ pc = "roughseek"
    /\ seeks' = Append(seeks, SeekTarget)
    /\ done' = FALSE
    /\ pc' = "jsondump_thread"
    /\ UNCHANGED <<inputVars, fields_written, fdoffset, closed, readCalls,
                   stalls, engineCallsAfterClose, nClose, queueVars,
                   writerVars, signalVars, f, out, exitStatus, raised,
                   exitPath, snapped>>

\* main.py:259
StartDumper ==
    /\ pc = "jsondump_thread"
    /\ wpc' = "get"
    /\ pc' = "while"
    /\ UNCHANGED <<inputVars, engineVars, queueVars, wmsg, file, lastSeen,
                   lastWrite, writeFailures, signalVars, done, f, out,
                   exitStatus, raised, exitPath, snapped>>

\* mutant: the bound of the loop is inclusive
LoopCondition_OffByOne == ~done /\ fields_written <= req_frames * 2

\* main.py:266
LoopCondition == ~done /\ fields_written < req_frames * 2

\* main.py:266, 291
While ==
    /\ pc = "while"
    /\ IF LoopCondition
       THEN /\ pc' = "readfield"
            /\ UNCHANGED <<out, exitPath>>
       ELSE /\ out' = Append(out, "saving JSON and exiting")
            /\ exitPath' = "normal"
            /\ pc' = "cleanup_put"
    /\ UNCHANGED <<inputVars, engineVars, queueVars, writerVars, signalVars,
                   done, f, exitStatus, raised, snapped>>

\* VHSDecode.readfield(): the engine writes a field, returns a field without
\* writing one, returns None or raises
ReadfieldResults == {"written", "stalled", "None", "raise"}

readfield(result) ==
    /\ readCalls' = readCalls + 1
    /\ engineCallsAfterClose' =
           engineCallsAfterClose + (IF closed THEN 1 ELSE 0)
    /\ result = "stalled" => stalls < env.stalls
    /\ fields_written' = fields_written + (IF result = "written" THEN 1 ELSE 0)
    /\ stalls' = stalls + (IF result = "stalled" THEN 1 ELSE 0)
    /\ fdoffset' =
           fdoffset + (IF result \in {"written", "stalled"} THEN 1 ELSE 0)

\* main.py:267-268, 273
Readfield ==
    /\ pc = "readfield"
    /\ \E result \in ReadfieldResults :
         /\ readfield(result)
         /\ IF result = "raise"
            THEN /\ pc' = "except_Exception"
                 /\ UNCHANGED f
            ELSE /\ f' = (IF result = "None" THEN "None" ELSE "field")
                 /\ pc' = "check_f"
    /\ UNCHANGED <<inputVars, closed, seeks, nClose, queueVars, writerVars,
                   signalVars, done, out, exitStatus, raised, exitPath,
                   snapped>>

\* mutant: the interrupt handler exits without calling cleanup()
ExceptKeyboardInterrupt_NoCleanup ==
    /\ pc = "except_KeyboardInterrupt"
    /\ out' = Append(out, "Terminated, saving JSON and exiting")
    /\ exitPath' = "interrupt"
    /\ pc' = "after_cleanup"
    /\ UNCHANGED <<inputVars, engineVars, queueVars, writerVars, signalVars,
                   done, f, exitStatus, raised, snapped>>

\* main.py:269-270
ExceptKeyboardInterrupt ==
    /\ pc = "except_KeyboardInterrupt"
    /\ out' = Append(out, "Terminated, saving JSON and exiting")
    /\ exitPath' = "interrupt"
    /\ pc' = "cleanup_put"
    /\ UNCHANGED <<inputVars, engineVars, queueVars, writerVars, signalVars,
                   done, f, exitStatus, raised, snapped>>

\* main.py:274-280
Diagnostic == [sample |-> fdoffset]

\* mutant: the failed readfield is retried
ExceptException_Retry ==
    /\ pc = "except_Exception"
    /\ out' = Append(out, Diagnostic)
    /\ exitPath' = "error"
    /\ pc' = "while"
    /\ UNCHANGED <<inputVars, engineVars, queueVars, writerVars, signalVars,
                   done, f, exitStatus, raised, snapped>>

ExceptException ==
    /\ pc = "except_Exception"
    /\ out' = Append(out, Diagnostic)
    /\ exitPath' = "error"
    /\ pc' = "cleanup_put"
    /\ UNCHANGED <<inputVars, engineVars, queueVars, writerVars, signalVars,
                   done, f, exitStatus, raised, snapped>>

\* main.py:284-286
CheckF ==
    /\ pc = "check_f"
    /\ done' = (IF f = "None" THEN TRUE ELSE done)
    /\ pc' = "snapshot"
    /\ UNCHANGED <<inputVars, engineVars, queueVars, writerVars, signalVars,
                   f, out, exitStatus, raised, exitPath, snapped>>

\* mutant: the threshold is inclusive
SnapshotDue_Inclusive(fw) == fw <= SnapThreshold \/ (fw % SnapInterval) = 0

\* main.py:288
SnapshotDue(fw) == fw < SnapThreshold \/ (fw % SnapInterval) = 0

\* mutant: main() waits for the dumper thread to catch up before each
\* periodic snapshot
Snapshot_WaitsForWriter ==
    /\ pc = "snapshot"
    /\ IF SnapshotDue(fields_written)
       THEN /\ queue = <<>>
            /\ engineCallsAfterClose' =
                   engineCallsAfterClose + (IF closed THEN 1 ELSE 0)
            /\ put(build_json(enqCount + 1))
            /\ snapped' = TRUE
            /\ pc' = "while"
            /\ UNCHANGED <<exitStatus, raised, exitPath, out>>
       ELSE /\ snapped' = FALSE
            /\ pc' = "while"
            /\ UNCHANGED <<queue, enqCount, engineCallsAfterClose, exitStatus,
                           raised, exitPath, out>>
    /\ UNCHANGED <<inputVars, fields_written, fdoffset, closed, seeks, nClose,
                   readCalls, stalls, nFinal, nStop, finalAt, stopAt,
                   writerVars, signalVars, done, f>>

\* main.py:288-289
Snapshot ==
    /\ pc = "snapshot"
    /\ IF SnapshotDue(fields_written)
       THEN /\ engineCallsAfterClose' =
                   engineCallsAfterClose + (IF closed THEN 1 ELSE 0)
            /\ \/ /\ put(build_json(enqCount + 1))
                  /\ snapped' = TRUE
                  /\ pc' = "while"
                  /\ UNCHANGED <<exitStatus, raised, exitPath, out>>
               \/ /\ Propagate("Exception")
                  /\ UNCHANGED <<queue, enqCount, snapped>>
       ELSE /\ snapped' = FALSE
            /\ pc' = "while"
            /\ UNCHANGED <<queue, enqCount, engineCallsAfterClose, exitStatus,
                           raised, exitPath, out>>
    /\ UNCHANGED <<inputVars, fields_written, fdoffset, closed, seeks, nClose,
                   readCalls, stalls, nFinal, nStop, finalAt, stopAt,
                   writerVars, signalVars, done, f>>

\* mutant: cleanup() closes the engine before it builds the last snapshot
CleanupPut_CloseFirst ==
    /\ pc = "cleanup_put"
    /\ closed' = TRUE
    /\ nClose' = nClose + 1
    /\ engineCallsAfterClose' = engineCallsAfterClose + 1
    /\ put(build_json(enqCount + 1))
    /\ nFinal' = nFinal + 1
    /\ finalAt' = enqCount + 1
    /\ pc' = "cleanup_stop"
    /\ UNCHANGED <<inputVars, fields_written, fdoffset, seeks, readCalls,
                   stalls, nStop, stopAt, writerVars, signalVars, done, f,
                   out, exitStatus, raised, exitPath, snapped>>

\* mutant: cleanup() forgets the last snapshot
CleanupPut_NoFinal ==
    /\ pc = "cleanup_put"
    /\ pc' = "cleanup_close"
    /\ UNCHANGED <<inputVars, engineVars, queueVars, writerVars, signalVars,
                   done, f, out, exitStatus, raised, exitPath, snapped>>

\* main.py:262
CleanupPut ==
    /\ pc = "cleanup_put"
    /\ engineCallsAfterClose' =
           engineCallsAfterClose + (IF closed THEN 1 ELSE 0)
    /\ \/ /\ put(build_json(enqCount + 1))
          /\ nFinal' = nFinal + 1
          /\ finalAt' = enqCount + 1
          /\ pc' = "cleanup_close"
          /\ UNCHANGED <<exitStatus, raised, exitPath, out>>
       \/ /\ Propagate("Exception")
          /\ UNCHANGED <<queue, enqCount, nFinal, finalAt>>
    /\ UNCHANGED <<inputVars, fields_written, fdoffset, closed, seeks, nClose,
                   readCalls, stalls, nStop, stopAt, writerVars, signalVars,
                   done, f, snapped>>

\* mutant: cleanup() closes the engine only if it is still open
CleanupClose_Guarded ==
    /\ pc = "cleanup_close"
    /\ closed' = TRUE
    /\ nClose' = nClose + (IF closed THEN 0 ELSE 1)
    /\ pc' = "cleanup_stop"
    /\ UNCHANGED <<exitStatus, raised, exitPath, out>>
    /\ UNCHANGED <<inputVars, fields_written, fdoffset, seeks, readCalls,
                   stalls, engineCallsAfterClose, queueVars, writerVars,
                   signalVars, done, f, snapped>>

\* main.py:263
CleanupClose ==
    /\ pc = "cleanup_close"
    /\ \/ /\ closed' = TRUE
          /\ nClose' = nClose + 1
          /\ pc' = "cleanup_stop"
          /\ UNCHANGED <<exitStatus, raised, exitPath, out>>
       \/ /\ Propagate("Exception")
          /\ UNCHANGED <<closed, nClose>>
    /\ UNCHANGED <<inputVars, fields_written, fdoffset, seeks, readCalls,
                   stalls, engineCallsAfterClose, queueVars, writerVars,
                   signalVars, done, f, snapped>>

\* mutant: cleanup() returns without enqueueing None
CleanupStop_NoSentinel ==
    /\ pc = "cleanup_stop"
    /\ pc' = "after_cleanup"
    /\ UNCHANGED <<inputVars, engineVars, queueVars, writerVars, signalVars,
                   done, f, out, exitStatus, raised, exitPath, snapped>>

\* mutant: cleanup() enqueues None twice
CleanupStop_Twice ==
    /\ pc = "cleanup_stop"
    /\ queue' = queue \o <<StopMsg(enqCount + 1), StopMsg(enqCount + 2)>>
    /\ enqCount' = enqCount + 2
    /\ nStop' = nStop + 2
    /\ stopAt' = enqCount + 2
    /\ pc' = "after_cleanup"
    /\ UNCHANGED <<inputVars, engineVars, nFinal, finalAt, writerVars,
                   signalVars, done, f, out, exitStatus, raised, exitPath,
                   snapped>>

\* main.py:264
CleanupStop ==
    /\ pc = "cleanup_stop"
    /\ put(StopMsg(enqCount + 1))
    /\ nStop' = nStop + 1
    /\ stopAt' = enqCount + 1
    /\ pc' = "after_cleanup"
    /\ UNCHANGED <<inputVars, engineVars, nFinal, finalAt, writerVars,
                   signalVars, done, f, out, exitStatus, raised, exitPath,
                   snapped>>

\* mutant: the handlers leave with status 0
Exit_AlwaysZero ==
    /\ pc = "after_cleanup"
    /\ exitStatus' = 0
    /\ pc' = "exited"
    /\ UNCHANGED raised
    /\ UNCHANGED <<inputVars, engineVars, queueVars, writerVars, signalVars,
                   done, f, out, exitPath, snapped>>

\* main.py:272, 282, 292: exit(1) in the handlers, return after the loop
Exit ==
    /\ pc = "after_cleanup"
    /\ exitStatus' = (IF exitPath = "normal" THEN 0 ELSE 1)
    /\ pc' = "exited"
    /\ UNCHANGED raised
    /\ UNCHANGED <<inputVars, engineVars, queueVars, writerVars, signalVars,
                   done, f, out, exitPath, snapped>>

\* positions of main() inside the try block of main.py:267-268
InTry == {"readfield"}

\* positions at which main() has ended
Ended == {"exited", "uncaught"}

\* a SIGINT is delivered to the process: ignored while SIG_IGN is installed,
\* otherwise KeyboardInterrupt is raised in the main thread where it stands
Sigint ==
    /\ pc \notin Ended
    /\ sigints < env.sigints
    /\ sigints' = sigints + 1
    /\ IF sigint = "SIG_IGN"
       THEN UNCHANGED <<pc, sigintAt, raised>>
       ELSE /\ sigintAt' = pc
            /\ IF pc \in InTry
               THEN /\ pc' = "except_KeyboardInterrupt"
                    /\ UNCHANGED raised
               ELSE /\ pc' = "uncaught"
                    /\ raised' = [kind |-> "KeyboardInterrupt", at |-> pc]
    /\ UNCHANGED <<inputVars, engineVars, queueVars, writerVars, sigint,
                   original_sigint_handler, done, f, out, exitStatus,
                   exitPath, snapped>>

\* ----------------------------------------------------- the dumper thread
\* q.get(): None ends the thread, anything else is written
DumperGet ==
    /\ wpc = "get"
    /\ queue # <<>>
    /\ queue' = Tail(queue)
    /\ lastSeen' = Head(queue).n
    /\ IF Head(queue).kind = "None"
       THEN /\ wpc' = "stopped"
            /\ UNCHANGED wmsg
       ELSE /\ wpc' = "write"
            /\ wmsg' = Head(queue)
    /\ UNCHANGED <<inputVars, engineVars, signalVars, pc, done, f, out,
                   exitStatus, raised, exitPath, snapped, enqCount, nFinal,
                   nStop, finalAt, stopAt, file, lastWrite, writeFailures>>

\* the snapshot replaces the output, or the write fails and is logged
DumperWrite ==
    /\ wpc = "write"
    /\ \/ /\ file' = wmsg
          /\ lastWrite' = [n |-> wmsg.n, ok |-> TRUE]
          /\ UNCHANGED writeFailures
       \/ /\ writeFailures < env.writeFailures
          /\ writeFailures' = writeFailures + 1
          /\ lastWrite' = [n |-> wmsg.n, ok |-> FALSE]
          /\ UNCHANGED file
    /\ wpc' = "get"
    /\ UNCHANGED <<inputVars, engineVars, signalVars, queueVars, pc, done, f,
                   out, exitStatus, raised, exitPath, snapped, wmsg,
                   lastSeen>>

\* ------------------------------------------------------------------ Next
Main ==
    \/ MakeLoader
    \/ SigIgn
    \/ Construct
    \/ SigRestore
    \/ Roughseek
    \/ StartDumper
    \/ While
    \/ Readfield
    \/ ExceptKeyboardInterrupt
    \/ ExceptException
    \/ CheckF
    \/ Snapshot
    \/ CleanupPut
    \/ CleanupClose
    \/ CleanupStop
    \/ Exit

Dumper ==
    \/ DumperGet
    \/ DumperWrite

Next ==
    \/ Main
    \/ Sigint
    \/ Dumper

Spec == Init /\ [][Next]_vars

\* the long run of LongFrames frames
SpecLong == InitLong /\ [][Next]_vars

\* main.py:261-264: cleanup() is a plain function without a guard; a caller
\* that invokes it again after it returned runs its three statements again
CleanupAgain ==
    /\ pc = "after_cleanup"
    /\ nFinal < MaxCleanups
    /\ pc' = "cleanup_put"
    /\ UNCHANGED <<inputVars, engineVars, queueVars, writerVars, signalVars,
                   done, f, out, exitStatus, raised, exitPath, snapped>>

NextTwice ==
    \/ Next
    \/ CleanupAgain

\* runs in which cleanup() is invoked up to MaxCleanups times
SpecTwice == Init /\ [][NextTwice]_vars

\* short runs in which the dumper thread, being a thread of its own, is
\* scheduled whenever it has a step to take
InitFair ==
    InitWith({ShortRun}, 0..MaxFrames, {NoFileloc}, {0},
             {"default_int_handler"})

SpecFair ==
    /\ InitFair
    /\ [][Next]_vars
    /\ WF_vars(DumperGet)
    /\ WF_vars(DumperWrite)

\* ---------------------------------------------------------------- claims
\* positions of main() inside the while loop, after its first test
InLoop == {"readfield", "check_f", "snapshot"}

\* the three ways the loop hands over to cleanup()
ExitPaths == {"normal", "interrupt", "error"}

\* cleanup() has returned
Finalized == pc \in {"after_cleanup", "exited"} /\ exitPath \in ExitPaths

Range(s) == {s[i] : i \in 1..Len(s)}

\* C1: on each of the three exit paths of the loop (normal end, readfield
\* interrupted, readfield failed) cleanup() runs exactly once: one final
\* snapshot is enqueued, the engine is closed once and None is enqueued once.
C1_FinalizationOnce ==
    /\ nFinal <= 1 /\ nClose <= 1 /\ nStop <= 1
    /\ Finalized => (nFinal = 1 /\ nClose = 1 /\ nStop = 1)

C1_Witness ==
    /\ pc = "exited"
    /\ exitPath = "interrupt"
    /\ readCalls > 1
    /\ nFinal = 1 /\ nClose = 1 /\ nStop = 1

\* C2: a SIGINT raised while main() is in the loop, inside readfield or
\* between two readfield calls, is caught: the run ends with the final
\* snapshot and None enqueued, the engine closed and exit status 1.
C2_InterruptInLoopFinalizes ==
    (sigintAt \in InLoop /\ pc \in Ended /\ raised.kind # "Exception")
        => (pc = "exited" /\ exitStatus = 1
            /\ nFinal = 1 /\ nClose = 1 /\ nStop = 1)

C4_OrderAndSentinelLast ==
    /\ \A i \in 1..Len(queue) : queue[i].n = lastSeen + i
    /\ lastSeen + Len(queue) = enqCount
    /\ nStop <= 1
    /\ stopAt # 0 => (finalAt # 0 /\ finalAt < stopAt /\ stopAt = enqCount)
    /\ \A i \in 1..Len(queue) :
         queue[i].kind = "None" => (i = Len(queue) /\ queue[i].n = stopAt)
    /\ wpc = "stopped" => (lastSeen = stopAt /\ queue = <<>>)

C4_Witness ==
    /\ wpc = "stopped"
    /\ enqCount >= 4
    /\ lastSeen = enqCount

\* C5: when the engine never returns None and writes one field per call, the
\* loop ends with fields_written = 2 * req_frames after 2 * req_frames calls
\* of readfield; once readfield returned None it is not called again.
C5_LoopTermination ==
    /\ (exitPath = "normal" /\ f # "None" /\ stalls = 0)
         => (fields_written = 2 * req_frames /\ readCalls = 2 * req_frames)
    /\ f = "None" => pc # "readfield"
    /\ (req_frames = 1 /\ pc = "exited" /\ exitPath = "normal"
          /\ stalls = 0 /\ f # "None")
         => (readCalls = 2 /\ exitStatus = 0 /\ nFinal = 1 /\ nStop = 1)

C5_Witness ==
    /\ req_frames = 2
    /\ pc = "exited"
    /\ exitPath = "normal"
    /\ f = "field"
    /\ stalls = 0
    /\ readCalls = 4
    /\ fields_written = 4

\* C6 as claimed: after an iteration that left fields_written in 1..1999, a
\* snapshot was enqueued exactly when fields_written is in 1..100 or is 500,
\* 1000 or 1500.
C6_CadenceAsClaimed ==
    (pc = "while" /\ readCalls > 0 /\ fields_written \in 1..1999)
        => (snapped <=> fields_written \in ((1..100) \cup {500, 1000, 1500}))

\* C6 as amended: after an iteration that left fields_written in 1..1999, a
\* snapshot was enqueued exactly when fields_written is in 1..99 or is 500,
\* 1000 or 1500; none is enqueued at 100.
C6_Cadence ==
    (pc = "while" /\ readCalls > 0 /\ fields_written \in 1..1999)
        => (snapped <=> fields_written \in ((1..99) \cup {500, 1000, 1500}))

C6_Witness ==
    /\ pc = "while"
    /\ fields_written = 1500
    /\ snapped
    /\ enqCount > 100

C8_RestoredOnConstructionFailure ==
    (pc = "uncaught" /\ raised.at = "construct")
        => sigint = original_sigint_handler

\* C9: main() exits with status 0 exactly when the loop ended normally and
\* with status 1 when readfield was interrupted or failed; on both status 1
\* paths the diagnostic is printed and cleanup() has run before the exit.
C9_ExitStatus ==
    /\ exitStatus = 0 <=> (pc = "exited" /\ exitPath = "normal")
    /\ (pc = "exited" /\ exitPath \in {"interrupt", "error"})
         => exitStatus = 1
    /\ (exitStatus = 1 /\ exitPath = "interrupt")
         => /\ "Terminated, saving JSON and exiting" \in Range(out)
            /\ nFinal = 1 /\ nClose = 1 /\ nStop = 1
    /\ (exitStatus = 1 /\ exitPath = "error")
         => /\ Diagnostic \in Range(out)
            /\ nFinal = 1 /\ nClose = 1 /\ nStop = 1

C9_Witness ==
    /\ pc = "exited"
    /\ exitPath = "interrupt"
    /\ exitStatus = 1
    /\ fields_written > 0

\* C10: after readfield raised it is not called again; when it failed with
\* an exception main() reports the current sample, then runs cleanup(), then
\* exits with status 1.
C10_NoRetry ==
    /\ (pc \in {"except_KeyboardInterrupt", "except_Exception"}
          \/ exitPath \in {"interrupt", "error"})
         => pc \notin ({"while"} \cup InLoop)
    /\ pc = "except_Exception" => (nFinal = 0 /\ exitStatus = NoStatus)
    /\ exitPath = "error"
         => /\ out = <<Diagnostic>>
            /\ exitStatus \in {NoStatus, 1}
            /\ exitStatus = 1 => (nFinal = 1 /\ nClose = 1 /\ nStop = 1)
            /\ pc = "exited" => exitStatus = 1

C10_Witness ==
    /\ pc = "exited"
    /\ exitPath = "error"
    /\ readCalls = 3
    /\ exitStatus = 1
    /\ out = <<[sample |-> 2]>>

Masked == sigint = "SIG_IGN" /\ original_sigint_handler = "default_int_handler"

\* positions of main() at which the engine is being constructed
Constructing == {"construct", "sig_restore"}

\* positions of main() in the decode loop and in cleanup()
LoopOrCleanup ==
    {"while", "except_KeyboardInterrupt", "except_Exception", "cleanup_put",
     "cleanup_close", "cleanup_stop", "after_cleanup"} \cup InLoop

\* C12: SIGINT is masked only while the engine is being constructed, the
\* saved handler is back once construction is over, and SIGINT is never
\* masked while the decode loop or cleanup() runs.
C12_MaskedOnlyDuringConstruction ==
    /\ Masked => pc \in Constructing
    /\ pc \in LoopOrCleanup =>
         (~Masked /\ sigint = original_sigint_handler)

\* C13: when make_loader raises ValueError main() prints it and exits with
\* status 1 before anything else happens: SIGINT is never masked, the engine
\* is not constructed or used, the dumper thread is not started, nothing is
\* enqueued and cleanup() does not run.
C13_LoaderFailureExitsEarly ==
    (Len(out) > 0 /\ exitPath = "none") =>
        /\ pc = "exited"
        /\ exitStatus = 1
        /\ Len(out) = 1 /\ out[1] = "ValueError"
        /\ original_sigint_handler = "unset"
        /\ ~Masked
        /\ seeks = <<>> /\ readCalls = 0
        /\ wpc = "not_started"
        /\ queue = <<>> /\ enqCount = 0
        /\ nFinal = 0 /\ nClose = 0 /\ nStop = 0

C13_Witness ==
    /\ pc = "exited"
    /\ exitPath = "none"
    /\ Len(out) = 1
    /\ exitStatus = 1
    /\ wpc = "not_started"

\* C14: when build_json raises in the loop, or a step of cleanup() raises,
\* the run still ends with the engine closed exactly once and None enqueued.
C14_FailureElsewhereStillFinalizes ==
    (pc = "uncaught" /\ raised.kind = "Exception"
       /\ raised.at \in {"snapshot", "cleanup_put", "cleanup_close"})
        => (nClose = 1 /\ nStop = 1)

\* C15: cleanup() enqueues the last snapshot, then closes the engine, then
\* enqueues None; the engine is not used after its close.
C15_CleanupOrder ==
    /\ nClose > 0 => (nFinal = 1 /\ finalAt # 0)
    /\ nStop > 0 => (nClose = 1 /\ finalAt # 0 /\ finalAt < stopAt)
    /\ closed => pc \in {"cleanup_stop", "after_cleanup", "exited", "uncaught"}
    /\ engineCallsAfterClose = 0

C15_Witness ==
    /\ pc = "exited"
    /\ closed
    /\ nStop = 1
    /\ readCalls > 0
    /\ stopAt = finalAt + 1

\* C16: enqueueing never blocks main(): whatever the number of messages the
\* dumper thread has not yet got, the put of the periodic snapshot, of the
\* last snapshot and of None can be taken, and so can every other step of
\* main().
C16_PutNeverBlocks ==
    /\ pc \notin Ended => ENABLED Main
    /\ (pc = "snapshot" /\ SnapshotDue(fields_written))
         => ENABLED (Snapshot /\ pc' = "while")
    /\ pc = "cleanup_put" => ENABLED (CleanupPut /\ pc' = "cleanup_close")
    /\ pc = "cleanup_stop" => ENABLED CleanupStop

\* every readfield call of the run is made and cleanup() returns while the
\* dumper thread has not taken a single step
C16_Witness ==
    /\ pc = "after_cleanup"
    /\ req_frames = MaxFrames
    /\ readCalls >= 2 * req_frames
    /\ fields_written = 2 * req_frames
    /\ lastSeen = 0
    /\ wpc = "get"
    /\ Len(queue) = enqCount
    /\ Len(queue) >= 2 * req_frames + 2

\* C17 as claimed: cleanup() is idempotent, a second invocation after the
\* first has completed does not close the engine a second time and does not
\* enqueue a second None.
C17_CleanupIdempotent ==
    nClose <= 1 /\ nStop <= 1

\* C17 as amended: cleanup() is not idempotent, every completed invocation,
\* a second one included, has enqueued one more snapshot, closed the engine
\* once more and enqueued one more None.
C17_EachCleanupRepeats ==
    Finalized => (nFinal >= 1 /\ nClose = nFinal /\ nStop = nFinal)

C17_Witness ==
    /\ pc = "after_cleanup"
    /\ nFinal = 2
    /\ nClose = 2
    /\ nStop = 2

\* positions of main() up to the restore of the SIGINT handler
BeforeSeek == {"make_loader", "sig_ign", "construct", "sig_restore"}

\* C18: exactly one seek is issued, after the construction of the engine and
\* before the dumper thread is started and before the first readfield: to
\* the file location when start_fileloc is not -1, else to field
\* 2 * firstframe.
C18_OneSeekBeforeLoop ==
    /\ Len(seeks) <= 1
    /\ seeks # <<>> => (pc \notin BeforeSeek /\ raised.at \notin BeforeSeek)
    /\ seeks = <<>> => (readCalls = 0 /\ wpc = "not_started")
    /\ (wpc # "not_started" \/ readCalls > 0 \/ pc \in LoopOrCleanup)
         => /\ Len(seeks) = 1
            /\ start_fileloc # -1
                 => seeks[1] = [to |-> start_fileloc, infield |-> FALSE]
            /\ start_fileloc = -1
                 => seeks[1] = [to |-> 2 * firstframe, infield |-> TRUE]

C18_Witness ==
    /\ readCalls > 0
    /\ start_fileloc = -1
    /\ firstframe = 1
    /\ seeks = <<[to |-> 2, infield |-> TRUE]>>

====
